---- MODULE Spec2Model ----
(***************************************************************************)
(* A model of app.py: the users file (Credential Store), register_user and *)
(* verify_user (Auth Service), generate_ai_response (AI Gateway) and the   *)
(* Flask routes /signup, /login, /logout, /send_message and /feedback.     *)
(*                                                                         *)
(* Python values are modelled as follows.  A dict whose keys are all       *)
(* present (a User record, a feedback entry) is a TLA+ record.  A dict     *)
(* whose keys may be missing (the session, a request's JSON body, the      *)
(* JSON the generation endpoint answers) is a set of <<key, value>> pairs. *)
(* A list is a sequence.  A string that the code inspects character by     *)
(* character (the chat message, which is strip()ped) is a sequence of      *)
(* one-character strings; every other string is a TLA+ string.             *)
(***************************************************************************)
EXTENDS Naturals, Sequences, FiniteSets

VARIABLES
    users,          \* the JSON array in users.json (app.config['USER_DB'])
    db_exists,      \* os.path.exists(app.config['USER_DB'])
    feedback_file,  \* the lines of feedback.json, oldest first
    session,        \* session[c]: the Flask session cookie of client c
    pc,             \* pc[c]: where client c's /signup request is in register_user
    frame,          \* frame[c]: the locals of client c's running register_user
    now,            \* the clock datetime.now() reads
    out,            \* the response of the request handled last
    registered      \* history: the register_user calls that returned (True, "")

vars == <<users, db_exists, feedback_file, session, pc, frame, now, out, registered>>

(***************************************************************************)
(* Bounds of the model.                                                    *)
(***************************************************************************)
MaxUsers == 2
MaxFeedback == 2
MaxTime == 1

Clients == {"c1", "c2"}
Emails == {"a@x.com", "b@x.com"}
Passwords == {"pw", "qw"}
Salts == {"s1", "s2"}
FirstNames == {"A", "C"}
LastNames == {"B"}
Sentiments == {"positive", "None"}
Concerns == {"None"}

(***************************************************************************)
(* Python dicts with optional keys.                                        *)
(***************************************************************************)
EmptyDict == {}

Has(d, key) == \E kv \in d : kv[1] = key

Get(d, key) == (CHOOSE kv \in d : kv[1] = key)[2]

DictGet(d, key, default) == IF Has(d, key) THEN Get(d, key) ELSE default

DictSet(d, key, value) == {kv \in d : kv[1] # key} \cup {<<key, value>>}

DictPop(d, key) == {kv \in d : kv[1] # key}

Min(S) == CHOOSE i \in S : \A j \in S : i <= j

(***************************************************************************)
(* werkzeug.security: a salted one-way hash.  Code(s) numbers the strings  *)
(* of the model; the digest mixes the salt's and the password's numbers.   *)
(***************************************************************************)
Alphabet == <<"pw", "qw", "s1", "s2">>

Code(s) == CHOOSE i \in 1..Len(Alphabet) : Alphabet[i] = s

hash_internal(salt, password) == (37 * Code(salt) + 11 * Code(password) + 5) % 101

generate_password_hash(password, salt) ==
    [method |-> "scrypt", salt |-> salt, hash |-> hash_internal(salt, password)]

check_password_hash(pwhash, password) ==
    hash_internal(pwhash.salt, password) = pwhash.hash

(***************************************************************************)
(* User DB helpers.                                                        *)
(***************************************************************************)
\* get_users(): init_user_db() creates the file holding [] when it is
\* missing, then the file's array is read.
get_users == IF db_exists THEN users ELSE <<>>

\* find_user with the loop left after its first record.
find_user_first_only(email) ==
    LET us == get_users
    IN  IF us # <<>> /\ us[1].email = email THEN {us[1]} ELSE {}

\* find_user(email): the first record of get_users() with that email, as a
\* set of at most one record; {} is None.
find_user(email) ==
    LET us == get_users
        hits == {i \in 1..Len(us) : us[i].email = email}
    IN  IF hits = {} THEN {} ELSE {us[Min(hits)]}

\* verify_user without the password check.
verify_user_unchecked(email, password) ==
    LET user == find_user(email)
    IN  IF user = {}
        THEN <<FALSE, "User not found">>
        ELSE <<TRUE, CHOOSE u \in user : TRUE>>

\* verify_user(email, password): the pair the function returns.
verify_user(email, password) ==
    LET user == find_user(email)
    IN  IF user = {}
        THEN <<FALSE, "User not found">>
        ELSE LET u == CHOOSE u \in user : TRUE
             IN  IF ~check_password_hash(u.password, password)
                 THEN <<FALSE, "Incorrect password">>
                 ELSE <<TRUE, u>>

NoFrame == [email |-> "", password |-> "", first_name |-> "", last_name |-> "",
            users |-> <<>>]

Response(route, status, body, calls) ==
    [route |-> route, status |-> status, body |-> body, calls |-> calls]

Init ==
    /\ users = <<>>
    /\ db_exists = FALSE
    /\ feedback_file = <<>>
    /\ session = [c \in Clients |-> EmptyDict]
    /\ pc = [c \in Clients |-> "idle"]
    /\ frame = [c \in Clients |-> NoFrame]
    /\ now = 0
    /\ out = Response("", 0, "", 0)
    /\ registered = {}

InFlight == Cardinality({c \in Clients : pc[c] # "idle"})

(***************************************************************************)
(* POST /signup: signup() calls register_user(), which runs in three       *)
(* steps: find_user (a read), get_users (a read) and save_users (a         *)
(* rewrite of the whole file).                                             *)
(***************************************************************************)
\* register_user without its find_user test.
register_user_find_unchecked(c, email, password, first_name, last_name) ==
    /\ pc[c] = "idle"
    /\ Len(get_users) + InFlight < MaxUsers
    /\ db_exists' = TRUE
    /\ pc' = [pc EXCEPT ![c] = "get_users"]
    /\ frame' = [frame EXCEPT ![c] =
           [email |-> email, password |-> password,
            first_name |-> first_name, last_name |-> last_name,
            users |-> <<>>]]
    /\ UNCHANGED <<users, feedback_file, session, now, out, registered>>

\* register_user, line 91-92: if find_user(email): return False, "..."
register_user_find(c, email, password, first_name, last_name) ==
    /\ pc[c] = "idle"
    /\ find_user(email) = {} => Len(get_users) + InFlight < MaxUsers
    /\ db_exists' = TRUE
    /\ IF find_user(email) # {}
       THEN /\ out' = Response("signup", 200, "Email already registered", 0)
            /\ UNCHANGED <<pc, frame>>
       ELSE /\ pc' = [pc EXCEPT ![c] = "get_users"]
            /\ frame' = [frame EXCEPT ![c] =
                   [email |-> email, password |-> password,
                    first_name |-> first_name, last_name |-> last_name,
                    users |-> <<>>]]
            /\ UNCHANGED out
    /\ UNCHANGED <<users, feedback_file, session, now, registered>>

\* register_user, line 93-100: users = get_users(); users.append({...})
register_user_get(c, salt) ==
    /\ pc[c] = "get_users"
    /\ db_exists' = TRUE
    /\ frame' = [frame EXCEPT ![c].users = Append(get_users,
           [email |-> frame[c].email,
            password |-> generate_password_hash(frame[c].password, salt),
            first_name |-> frame[c].first_name,
            last_name |-> frame[c].last_name,
            created_at |-> now])]
    /\ pc' = [pc EXCEPT ![c] = "save_users"]
    /\ UNCHANGED <<users, feedback_file, session, now, out, registered>>

\* save_users(users): the file is rewritten with the list it is given.
save_users(us) ==
    /\ users' = us
    /\ db_exists' = TRUE

\* register_user, line 101-102, and signup, line 166-172.
register_user_save(c) ==
    /\ pc[c] = "save_users"
    /\ save_users(frame[c].users)
    /\ registered' = registered \cup
           {[email |-> frame[c].email, password |-> frame[c].password,
             first_name |-> frame[c].first_name,
             last_name |-> frame[c].last_name,
             user |-> frame[c].users[Len(frame[c].users)]]}
    /\ session' = [session EXCEPT ![c] = DictSet(session[c], "user",
           [email |-> frame[c].email, first_name |-> frame[c].first_name,
            last_name |-> frame[c].last_name])]
    /\ out' = Response("signup", 302, "dashboard", 0)
    /\ pc' = [pc EXCEPT ![c] = "idle"]
    /\ frame' = [frame EXCEPT ![c] = NoFrame]
    /\ UNCHANGED <<feedback_file, now>>

(***************************************************************************)
(* /login (POST) and /logout.                                              *)
(***************************************************************************)
login(c, email, password) ==
    /\ pc[c] = "idle"
    /\ IF Has(session[c], "user")
       THEN /\ out' = Response("login", 302, "dashboard", 0)
            /\ UNCHANGED <<session, db_exists>>
       ELSE LET r == verify_user(email, password)
            IN  /\ db_exists' = TRUE
                /\ IF r[1]
                   THEN /\ session' = [session EXCEPT ![c] =
                               DictSet(session[c], "user",
                                   [email |-> email,
                                    first_name |-> r[2].first_name,
                                    last_name |-> r[2].last_name])]
                        /\ out' = Response("login", 302, "dashboard", 0)
                   ELSE /\ out' = Response("login", 200, r[2], 0)
                        /\ UNCHANGED session
    /\ UNCHANGED <<users, feedback_file, pc, frame, now, registered>>

logout(c) ==
    /\ pc[c] = "idle"
    /\ session' = [session EXCEPT ![c] = DictPop(session[c], "user")]
    /\ out' = Response("logout", 302, "home", 0)
    /\ UNCHANGED <<users, db_exists, feedback_file, pc, frame, now, registered>>

\* datetime.now() advances.
Tick ==
    /\ now < MaxTime
    /\ now' = now + 1
    /\ UNCHANGED <<users, db_exists, feedback_file, session, pc, frame, out, registered>>

(***************************************************************************)
(* AI Gateway.  net is what the outbound POST meets: exc is the exception  *)
(* client.post raises ("" when it returns), status the response's status   *)
(* code, json_ok whether response.json() parses the body, result the       *)
(* parsed body.                                                            *)
(***************************************************************************)
\* httpx's exception classes that derive from httpx.RequestError.
RequestError == {"ConnectError", "ReadTimeout"}

ConnectFallback == "Error: Could not connect to the AI service."
UnexpectedFallback == "An unexpected error occurred while generating the response."
MalformedFallback == "I'm sorry, I couldn't generate a response at the moment."

\* The except clauses of generate_ai_response, lines 60-65.
handle_exception(exc) ==
    IF exc \in RequestError THEN ConnectFallback ELSE UnexpectedFallback

\* response.raise_for_status(): httpx.HTTPStatusError unless the status is 2xx.
raise_for_status(status) == IF status \in 200..299 THEN "" ELSE "HTTPStatusError"

\* Lines 53-58: the text of the first part of the first candidate.
extract_text(result) ==
    IF /\ Has(result, "candidates")
       /\ Get(result, "candidates") # <<>>
       /\ Has(Get(result, "candidates")[1], "content")
       /\ Get(Get(result, "candidates")[1], "content") # EmptyDict
       /\ Has(Get(Get(result, "candidates")[1], "content"), "parts")
       /\ Get(Get(Get(result, "candidates")[1], "content"), "parts") # <<>>
    THEN LET part == Get(Get(Get(result, "candidates")[1], "content"), "parts")[1]
         IN  IF Has(part, "text") THEN Get(part, "text")
             ELSE handle_exception("KeyError")
    ELSE MalformedFallback

generate_ai_response(user_message, net) ==
    IF net.exc # "" THEN handle_exception(net.exc)
    ELSE IF raise_for_status(net.status) # ""
         THEN handle_exception(raise_for_status(net.status))
    ELSE IF ~net.json_ok THEN handle_exception("JSONDecodeError")
    ELSE extract_text(net.result)

Candidates(content) == {<<"candidates", <<{<<"content", content>>}>> >>}

Results ==
    { EmptyDict,
      {<<"candidates", <<>> >>},
      {<<"candidates", <<EmptyDict>> >>},
      Candidates(EmptyDict),
      Candidates({<<"parts", <<>> >>}),
      Candidates({<<"parts", <<EmptyDict>> >>}),
      Candidates({<<"parts", <<{<<"text", "">>}>> >>}),
      Candidates({<<"parts", <<{<<"text", "Hello">>}>> >>}) }

NetOutcomes ==
    {[exc |-> e, status |-> 0, json_ok |-> FALSE, result |-> EmptyDict] :
        e \in RequestError}
    \cup {[exc |-> "", status |-> s, json_ok |-> FALSE, result |-> EmptyDict] :
        s \in {200, 302, 500}}
    \cup {[exc |-> "", status |-> 200, json_ok |-> TRUE, result |-> r] :
        r \in Results}

(***************************************************************************)
(* str.strip() and POST /send_message.                                     *)
(***************************************************************************)
Whitespace == {" ", "\t", "\n"}

RECURSIVE lstrip(_)
lstrip(s) ==
    IF s # <<>> /\ Head(s) \in Whitespace THEN lstrip(Tail(s)) ELSE s

RECURSIVE rstrip(_)
rstrip(s) ==
    IF s # <<>> /\ s[Len(s)] \in Whitespace
    THEN rstrip(SubSeq(s, 1, Len(s) - 1)) ELSE s

\* The message tested without strip().
strip_missing(s) == s

strip(s) == rstrip(lstrip(s))

Messages == {<<>>, <<" ">>, <<"\t", " ">>, <<"h", "i">>, <<" ", "h", " ">>}

MessageBodies == {EmptyDict} \cup {{<<"message", m>>} : m \in Messages}

send_message(c, data, net) ==
    /\ pc[c] = "idle"
    /\ IF ~Has(session[c], "user")
       THEN out' = Response("send_message", 401, "Not logged in", 0)
       ELSE LET user_message == DictGet(data, "message", <<>>)
            IN  IF strip(user_message) = <<>>
                THEN out' = Response("send_message", 400, "Message cannot be empty", 0)
                ELSE out' = Response("send_message", 200,
                                     generate_ai_response(user_message, net), 1)
    /\ UNCHANGED <<users, db_exists, feedback_file, session, pc, frame, now, registered>>

(***************************************************************************)
(* POST /feedback.                                                         *)
(***************************************************************************)
FeedbackBodies ==
    {EmptyDict} \cup
    {{<<"sentiment", s>>, <<"concern", k>>} : s \in Sentiments, k \in Concerns}

\* feedback() opening feedback.json with mode "w".
feedback_truncating(c, data) ==
    /\ pc[c] = "idle"
    /\ IF ~Has(session[c], "user")
       THEN /\ out' = Response("feedback", 401, "Not logged in", 0)
            /\ UNCHANGED feedback_file
       ELSE /\ Len(feedback_file) < MaxFeedback
            /\ feedback_file' =
                   <<[user |-> Get(session[c], "user").email,
                      sentiment |-> DictGet(data, "sentiment", "None"),
                      concern |-> DictGet(data, "concern", "None"),
                      timestamp |-> now]>>
            /\ out' = Response("feedback", 200, "Feedback received", 0)
    /\ UNCHANGED <<users, db_exists, session, pc, frame, now, registered>>

feedback(c, data) ==
    /\ pc[c] = "idle"
    /\ IF ~Has(session[c], "user")
       THEN /\ out' = Response("feedback", 401, "Not logged in", 0)
            /\ UNCHANGED feedback_file
       ELSE /\ Len(feedback_file) < MaxFeedback
            /\ feedback_file' = Append(feedback_file,
                   [user |-> Get(session[c], "user").email,
                    sentiment |-> DictGet(data, "sentiment", "None"),
                    concern |-> DictGet(data, "concern", "None"),
                    timestamp |-> now])
            /\ out' = Response("feedback", 200, "Feedback received", 0)
    /\ UNCHANGED <<users, db_exists, session, pc, frame, now, registered>>

(***************************************************************************)
(* The requests a client can make.  The specifications below draw the form *)
(* fields and bodies of the requests from the sets they are given.         *)
(***************************************************************************)
Signup(c, passwords, salts, first_names) ==
    \/ \E e \in Emails, p \in passwords, f \in first_names, l \in LastNames :
          register_user_find(c, e, p, f, l)
    \/ \E s \in salts : register_user_get(c, s)
    \/ register_user_save(c)

Login(c) == \E e \in Emails, p \in Passwords : login(c, e, p)

SendMessage(c, bodies, outcomes) ==
    \E d \in bodies, n \in outcomes : send_message(c, d, n)

Feedback(c) == \E d \in FeedbackBodies : feedback(c, d)

\* No request of another client is inside register_user.
Alone(c) == \A d \in Clients \ {c} : pc[d] = "idle"

FewBodies == {EmptyDict, {<<"message", <<"h", "i">> >>}}

FewOutcomes ==
    {n \in NetOutcomes : n.exc = "ReadTimeout" \/ extract_text(n.result) = "Hello"}

\* Every route, requests handled one at a time.
Next ==
    \/ \E c \in Clients : Alone(c) /\ Signup(c, {"pw"}, {"s1"}, {"A"})
    \/ \E c \in Clients : Alone(c) /\ Login(c)
    \/ \E c \in Clients : Alone(c) /\ logout(c)
    \/ \E c \in Clients : Alone(c) /\ SendMessage(c, FewBodies, FewOutcomes)
    \/ \E c \in Clients : Alone(c) /\ Feedback(c)
    \/ Tick

Spec == Init /\ [][Next]_vars

\* The Auth Service, requests handled one at a time.
NextAuth ==
    \/ \E c \in Clients : Alone(c) /\ Signup(c, Passwords, Salts, FirstNames)
    \/ \E c \in Clients : Alone(c) /\ Login(c)
    \/ \E c \in Clients : Alone(c) /\ logout(c)
    \/ Tick

SpecAuth == Init /\ [][NextAuth]_vars

\* The Auth Service, the requests of different clients handled by different
\* threads: the steps of their register_user calls interleave.
NextRace ==
    \/ \E c \in Clients : Signup(c, Passwords, {"s1"}, FirstNames)
    \/ \E c \in Clients : Login(c)
    \/ \E c \in Clients : logout(c)
    \/ Tick

SpecRace == Init /\ [][NextRace]_vars

\* The chat endpoint, with every body and every outcome of the outbound call.
NextChat ==
    \/ \E c \in Clients : Alone(c) /\ Signup(c, {"pw"}, {"s1"}, {"A"})
    \/ \E c \in Clients : Alone(c) /\ logout(c)
    \/ \E c \in Clients : Alone(c) /\ SendMessage(c, MessageBodies, NetOutcomes)

SpecChat == Init /\ [][NextChat]_vars

(***************************************************************************)
(* The properties.                                                         *)
(***************************************************************************)
InStore(email) == \E i \in 1..Len(users) : users[i].email = email

\* C1: no two User records of the users file have the same email, whatever
\* register_user calls ran and however their steps interleaved.
C1_EmailUnique ==
    \A i, j \in 1..Len(users) : users[i].email = users[j].email => i = j

\* C2: register_user with an email that some User record has returns
\* (False, "Email already registered"), writes nothing and leaves the list
\* of User records as it was; /signup leaves the session as it was.
C2_DuplicateEmailRejected ==
    [][\A c \in Clients, e \in Emails, p \in Passwords,
          f \in FirstNames, l \in LastNames :
          (register_user_find(c, e, p, f, l) /\ InStore(e)) =>
              /\ out' = Response("signup", 200, "Email already registered", 0)
              /\ users' = users
              /\ db_exists' = db_exists
              /\ session' = session
              /\ registered' = registered
              /\ pc'[c] = "idle"]_vars

\* A second /signup with the email of a stored User was answered, after the
\* store had come to hold two Users.
C2_Witness ==
    /\ out = Response("signup", 200, "Email already registered", 0)
    /\ Len(users) = 2

\* C3: verify_user returns "User not found" exactly when no User record has
\* the email, "Incorrect password" exactly when a record has the email and
\* the password does not match its hash, and success otherwise; it leaves
\* the list of User records as it was.
C3_VerifyClassifies ==
    [][\A c \in Clients, e \in Emails, p \in Passwords :
          (login(c, e, p) /\ ~Has(session[c], "user")) =>
              LET r == verify_user(e, p)
                  bad == \E i \in 1..Len(users) :
                            /\ users[i].email = e
                            /\ hash_internal(users[i].password.salt, p)
                                   # users[i].password.hash
              IN  /\ users' = users
                  /\ (~r[1] /\ r[2] = "User not found") <=> ~InStore(e)
                  /\ (~r[1] /\ r[2] = "Incorrect password") <=> bad
                  /\ r[1] <=> (InStore(e) /\ ~bad)
                  /\ ~r[1] => out' = Response("login", 200, r[2], 0)
                  /\ r[1] => out' = Response("login", 302, "dashboard", 0)]_vars

\* /login has answered "Incorrect password" while the store held two Users.
C3_Witness ==
    /\ out = Response("login", 200, "Incorrect password", 0)
    /\ Len(users) = 2

\* C4: once register_user(e, p, f, l) has returned success, and after any
\* further requests handled one at a time, verify_user(e, p) succeeds with
\* first_name f and last_name l, and verify_user(e, q) returns
\* "Incorrect password" for every q other than p.
C4_RoundTrip ==
    \A g \in registered :
        /\ verify_user(g.email, g.password)[1]
        /\ verify_user(g.email, g.password)[2].email = g.email
        /\ verify_user(g.email, g.password)[2].first_name = g.first_name
        /\ verify_user(g.email, g.password)[2].last_name = g.last_name
        /\ \A q \in Passwords \ {g.password} :
              /\ ~verify_user(g.email, q)[1]
              /\ verify_user(g.email, q)[2] = "Incorrect password"

\* Two Users are registered and both clients are logged in as the same one:
\* one of them by /login, which is verify_user succeeding.
C4_Witness ==
    /\ Cardinality(registered) = 2
    /\ Has(session["c1"], "user")
    /\ session["c1"] = session["c2"]

\* C5: what verify_user returns never holds the 'password' field of a User
\* record.
C5_HashNotReturned ==
    \A e \in Emails, p \in Passwords :
        verify_user(e, p)[1] => "password" \notin DOMAIN verify_user(e, p)[2]

NetworkFailure(n) ==
    \/ n.exc \in {"ReadTimeout", "ConnectError"}
    \/ n.exc = "" /\ n.status \notin 200..299

\* C6: on a timeout, a connection error or a response whose status is not
\* 2xx, generate_ai_response returns
\* "Error: Could not connect to the AI service.".
C6_TransportFallback ==
    [][\A c \in Clients, d \in MessageBodies, n \in NetOutcomes :
          (send_message(c, d, n) /\ out'.calls = 1 /\ NetworkFailure(n)) =>
              out'.body = "Error: Could not connect to the AI service."]_vars

\* Every field on the path to the generated text is present and not empty.
TextPresent(result) ==
    /\ Has(result, "candidates")
    /\ Get(result, "candidates") # <<>>
    /\ \E content \in {kv[2] : kv \in {x \in Get(result, "candidates")[1] :
                                           x[1] = "content"}} :
          /\ Has(content, "parts")
          /\ Get(content, "parts") # <<>>
          /\ Has(Get(content, "parts")[1], "text")
          /\ Get(Get(content, "parts")[1], "text") # ""

\* C7: when the request succeeds and the body parses, generate_ai_response
\* returns parts[0].text if every field on the path to it is present and
\* not empty, and the malformed-response fallback if not.
C7_MalformedFallback ==
    [][\A c \in Clients, d \in MessageBodies, n \in NetOutcomes :
          (/\ send_message(c, d, n)
           /\ out'.calls = 1
           /\ n.exc = "" /\ n.status \in 200..299 /\ n.json_ok) =>
              IF TextPresent(n.result)
              THEN out'.body = extract_text(n.result)
              ELSE out'.body =
                       "I'm sorry, I couldn't generate a response at the moment."]_vars

\* The message of a body is absent, empty or made of whitespace only.
Blank(d) ==
    \A kv \in d : kv[1] = "message" =>
        \A i \in 1..Len(kv[2]) : kv[2][i] \in {" ", "\t", "\n"}

\* C8: /send_message answers 401 without a session and 400 for a blank
\* message, calling generate_ai_response in neither case; in every other
\* case it calls it once and answers with what it returns.
C8_GatewayGated ==
    [][\A c \in Clients, d \in MessageBodies, n \in NetOutcomes :
          send_message(c, d, n) =>
              /\ ~Has(session[c], "user") =>
                     out'.status = 401 /\ out'.calls = 0
              /\ (Has(session[c], "user") /\ Blank(d)) =>
                     out'.status = 400 /\ out'.calls = 0
              /\ (Has(session[c], "user") /\ ~Blank(d)) =>
                     /\ out'.status = 200
                     /\ out'.calls = 1
                     /\ out'.body = generate_ai_response(Get(d, "message"), n)
              /\ UNCHANGED <<users, db_exists, feedback_file, session>>]_vars

\* /send_message has refused a blank message of a logged-in client.
C8_Witness ==
    out = Response("send_message", 400, "Message cannot be empty", 0)

\* C9: the User record a successful register_user call wrote stays in the
\* users file, with its hash and names, whatever calls follow and however
\* their steps interleave.
C9_UserNeverLost ==
    \A g \in registered : \E i \in 1..Len(users) : users[i] = g.user

\* C10: /feedback without a session answers 401 and leaves the feedback
\* file as it was; with a session it appends one entry whose user is the
\* session's email, after the earlier entries; nothing else changes the
\* feedback file, and /feedback never changes the users file.
C10_FeedbackAppendOnly ==
    [][/\ \A c \in Clients, d \in FeedbackBodies :
             feedback(c, d) =>
                 /\ users' = users
                 /\ db_exists' = db_exists
                 /\ IF ~Has(session[c], "user")
                    THEN /\ out'.status = 401
                         /\ feedback_file' = feedback_file
                    ELSE /\ Len(feedback_file') = Len(feedback_file) + 1
                         /\ SubSeq(feedback_file', 1, Len(feedback_file))
                                = feedback_file
                         /\ feedback_file'[Len(feedback_file')].user
                                = Get(session[c], "user").email
       /\ feedback_file' # feedback_file =>
             \E c \in Clients, d \in FeedbackBodies :
                 feedback(c, d) /\ Has(session[c], "user")]_vars

\* The feedback file holds entries of two different users, and a /feedback
\* without a session was answered last.
C10_Witness ==
    /\ Len(feedback_file) = 2
    /\ feedback_file[1].user # feedback_file[2].user
    /\ out = Response("feedback", 401, "Not logged in", 0)

====
